---- MODULE Spec2Model ----
(***************************************************************************)
(* Model of wepay/signer-python: src/wepay/signer/__init__.py, class       *)
(* Signer.                                                                 *)
(*                                                                         *)
(* Strings are sequences of ASCII code points, so that Python's str        *)
(* ordering, lower(), upper() and format() are computed, not assumed.      *)
(* A dict is the sequence of its <<key, value>> items in insertion order,  *)
(* keys pairwise distinct.  Digests are injective terms over their inputs  *)
(* (collision-free hash / HMAC), encoded again as strings.                 *)
(***************************************************************************)
EXTENDS Integers, Sequences, FiniteSets, TLC

(* ------------------------------ bounds -------------------------------- *)
\* largest number of items the caller puts into a payload
MaxKeys == 2
\* largest number of API calls made on one payload object
MaxCalls == 2
\* number of threads calling sign concurrently on one Signer
NumThreads == 2

(* ------------------------- string literals ---------------------------- *)
\* 'client_id'
K_client_id == <<99, 108, 105, 101, 110, 116, 95, 105, 100>>
\* 'client_secret'
K_client_secret == <<99, 108, 105, 101, 110, 116, 95, 115, 101, 99, 114, 101, 116>>
\* 'stoken'
K_stoken == <<115, 116, 111, 107, 101, 110>>
\* "self_key"
K_self_key == <<115, 101, 108, 102, 95, 107, 101, 121>>
\* "hash_algo"
K_hash_algo == <<104, 97, 115, 104, 95, 97, 108, 103, 111>>
\* "WePay"
S_WePay == <<87, 101, 80, 97, 121>>
\* hashlib.sha512().name = "sha512"
S_sha512 == <<115, 104, 97, 53, 49, 50>>
\* 'signer'
S_signer == <<115, 105, 103, 110, 101, 114>>
\* "SIGNER-HMAC-"
S_SIGNER_HMAC == <<83, 73, 71, 78, 69, 82, 45, 72, 77, 65, 67, 45>>

(* ----------------------------- str ------------------------------------ *)
Range(s) == {s[i] : i \in DOMAIN s}

Min(S) == CHOOSE x \in S : \A y \in S : x <= y

\* str.lower(): only 'A'..'Z' change
Lower(s) == [i \in DOMAIN s |-> IF s[i] >= 65 /\ s[i] <= 90 THEN s[i] + 32 ELSE s[i]]

\* str.upper(): only 'a'..'z' change
Upper(s) == [i \in DOMAIN s |-> IF s[i] >= 97 /\ s[i] <= 122 THEN s[i] - 32 ELSE s[i]]

\* str.__lt__: code point order at the first difference, a proper prefix is smaller
StrLess(a, b) ==
    LET n == IF Len(a) < Len(b) THEN Len(a) ELSE Len(b)
        D == {i \in 1..n : a[i] # b[i]}
    IN  IF D = {} THEN Len(a) < Len(b) ELSE a[Min(D)] < b[Min(D)]

RECURSIVE SortInsert(_, _)
SortInsert(x, s) ==
    IF s = <<>> THEN <<x>>
    ELSE IF StrLess(x, Head(s)) THEN <<x>> \o s
    ELSE <<Head(s)>> \o SortInsert(x, Tail(s))

\* list.sort() left out: the list stays in iteration order
ListSortNone(s) == s

\* list.sort() on a list of str
RECURSIVE ListSort(_)
ListSort(s) == IF s = <<>> THEN <<>> ELSE SortInsert(Head(s), ListSort(Tail(s)))

\* sep.join(list)
RECURSIVE Join(_, _)
Join(sep, s) ==
    IF s = <<>> THEN <<>>
    ELSE IF Len(s) = 1 THEN s[1]
    ELSE s[1] \o sep \o Join(sep, Tail(s))

(* --------------------------- values ----------------------------------- *)
\* payload values: str, int, and list of str (a composite, non-scalar value)
StrV(s) == [kind |-> "str", s |-> s, n |-> 0, items |-> <<>>]
IntV(n) == [kind |-> "int", s |-> <<>>, n |-> n, items |-> <<>>]
ListV(items) == [kind |-> "list", s |-> <<>>, n |-> 0, items |-> items]

RECURSIVE Digits(_)
Digits(n) == IF n < 10 THEN <<48 + n>> ELSE Digits(n \div 10) \o <<48 + (n % 10)>>

\* repr() of a str inside a list: 'x'
Repr(s) == <<39>> \o s \o <<39>>

\* "{}".format(v)
Format(v) ==
    CASE v.kind = "str" -> v.s
      [] v.kind = "int" -> IF v.n < 0 THEN <<45>> \o Digits(0 - v.n) ELSE Digits(v.n)
      [] v.kind = "list" ->
            <<91>> \o Join(<<44, 32>>, [i \in DOMAIN v.items |-> Repr(v.items[i])]) \o <<93>>

(* ----------------------------- dict ----------------------------------- *)
\* six.viewkeys(d), in iteration order
DictKeys(d) == [i \in DOMAIN d |-> d[i][1]]

DictHas(d, k) == \E i \in DOMAIN d : d[i][1] = k

\* d[k]
DictGet(d, k) == d[CHOOSE i \in DOMAIN d : d[i][1] = k][2]

\* d[k] = v: an existing key keeps its position, a new key is appended
DictSet(d, k, v) ==
    IF DictHas(d, k)
    THEN [i \in DOMAIN d |-> IF d[i][1] = k THEN <<k, v>> ELSE d[i]]
    ELSE Append(d, <<k, v>>)

\* d.pop(k, None) left out: the item stays
DictPopKeep(d, k) == d

\* d.pop(k, None)
DictPop(d, k) == SelectSeq(d, LAMBDA item : item[1] # k)

\* d.copy()
DictCopy(d) == d

\* d.update(other)
RECURSIVE DictUpdate(_, _)
DictUpdate(d, other) ==
    IF other = <<>> THEN d
    ELSE DictUpdate(DictSet(d, other[1][1], other[1][2]), Tail(other))

(* --------------------------- digests ---------------------------------- *)
\* A digest is the term of its inputs: the inputs are moved out of the
\* character range (so no character of a digest is a letter, as in a hex
\* digest) and bracketed by marks that occur nowhere else.
Shift(s) == [i \in DOMAIN s |-> s[i] + 1000]

\* hashlib.new(name, data).hexdigest()
hashlib_hexdigest(name, data) == <<1>> \o Shift(name) \o <<0>> \o Shift(data) \o <<2>>

\* hmac.new(key, msg, digestmod).digest()
hmac_digest(key, msg, algo) ==
    <<3>> \o Shift(algo) \o <<0>> \o Shift(key) \o <<0>> \o Shift(msg) \o <<4>>

\* hmac.new(key, msg, digestmod).hexdigest()
hmac_hexdigest(key, msg, algo) ==
    <<5>> \o Shift(algo) \o <<0>> \o Shift(key) \o <<0>> \o Shift(msg) \o <<6>>

(* ----------------------------- Signer --------------------------------- *)
\* Signer.__init__: the instance built from the constructor arguments
Signer__init__(client_id, client_secret, options) ==
    LET merged_options ==
            DictUpdate(DictCopy(options),
                       << <<K_self_key, S_WePay>>, <<K_hash_algo, S_sha512>> >>)
    IN  [client_id |-> Format(client_id),
         client_secret |-> Format(client_secret),
         self_key |-> DictGet(merged_options, K_self_key),
         hash_algo |-> DictGet(merged_options, K_hash_algo)]

\* Signer.__create_scope
__create_scope(self) == self.self_key \o <<47>> \o self.client_id \o <<47>> \o S_signer

\* the line with the value in its original case (.lower() left off val)
ContextLineRawValue(k, v) == Lower(k) \o <<61>> \o Format(v) \o <<10>>

\* one rendered line of Signer.__create_context
ContextLine(k, v) == Lower(k) \o <<61>> \o Lower(Format(v)) \o <<10>>

\* the context with the lines rendered in the order of the sorted keys
\* instead of the rendered lines being sorted
create_context_by_key(self, payload) ==
    LET sorted_keys == ListSort(DictKeys(payload))
        canonical_payload ==
            [i \in DOMAIN sorted_keys |->
                ContextLine(sorted_keys[i], DictGet(payload, sorted_keys[i]))]
    IN  Join(<<>>, canonical_payload) \o <<10>> \o Join(<<59>>, sorted_keys)

\* Signer.__create_context
__create_context(self, payload) ==
    LET canonical_payload ==
            ListSort([i \in DOMAIN payload |-> ContextLine(payload[i][1], payload[i][2])])
        sorted_keys == ListSort(DictKeys(payload))
        signed_headers_string == Join(<<59>>, sorted_keys)
    IN  Join(<<>>, canonical_payload) \o <<10>> \o signed_headers_string

\* Signer.__create_string_to_sign
__create_string_to_sign(self, scope, context) ==
    LET scope_hash == hashlib_hexdigest(self.hash_algo, scope)
        context_hash == hashlib_hexdigest(self.hash_algo, context)
    IN  S_SIGNER_HMAC \o Upper(self.hash_algo) \o <<10>> \o self.self_key \o <<10>>
            \o self.client_id \o <<10>> \o scope_hash \o <<10>> \o context_hash

\* Signer.__get_signing_salt
__get_signing_salt(self) ==
    LET self_key_sign == hmac_digest(self.client_secret, self.self_key, self.hash_algo)
        client_id_sign == hmac_digest(self_key_sign, self.client_id, self.hash_algo)
        signer_sign == hmac_digest(client_id_sign, S_signer, self.hash_algo)
    IN  signer_sign

\* the merged_payload of Signer.sign
MergedPayload(self, payload) ==
    DictUpdate(DictCopy(payload),
               << <<K_client_id, StrV(self.client_id)>>,
                  <<K_client_secret, StrV(self.client_secret)>> >>)

\* Signer.sign: the returned signature
sign(self, payload) ==
    LET merged_payload == MergedPayload(self, payload)
        scope == __create_scope(self)
        context == __create_context(self, merged_payload)
        s2s == __create_string_to_sign(self, scope, context)
        signing_key == __get_signing_salt(self)
    IN  hmac_hexdigest(signing_key, s2s, self.hash_algo)

\* Signer.generate_query_string_params: the caller's payload object on return
PayloadAfterGenerate(self, payload) ==
    LET popped == DictPop(payload, K_client_secret)
        signed_token == sign(self, popped)
    IN  DictSet(DictSet(popped, K_client_id, StrV(self.client_id)),
                K_stoken, StrV(signed_token))

\* Signer.generate_query_string_params: the returned query string
generate_query_string_params(self, payload) ==
    LET after == PayloadAfterGenerate(self, payload)
        payload_keys == ListSort(DictKeys(after))
        qsa == [i \in DOMAIN payload_keys |->
                    payload_keys[i] \o <<61>> \o Format(DictGet(after, payload_keys[i]))]
    IN  Join(<<38>>, qsa)

(* ------------------------- input domains ------------------------------ *)
\* the items a caller puts into a payload: the keys 'a', 'A', 'a1' and the
\* three keys the Signer itself uses, with the values 'x', 'X' and the
\* composite ['X']
ItemPool ==
    { << <<97>>, StrV(<<120>>) >>,
      << <<97>>, StrV(<<88>>) >>,
      << <<65>>, StrV(<<88>>) >>,
      << <<97, 49>>, StrV(<<120>>) >>,
      << <<97, 49>>, ListV(<< <<88>> >>) >>,
      << K_client_id, StrV(<<88>>) >>,
      << K_client_secret, StrV(<<120>>) >>,
      << K_stoken, StrV(<<120>>) >> }

\* options dicts: none, self_key "Me", hash_algo "crc32" (not a hashlib hash)
OptionsPool ==
    { <<>>,
      << <<K_self_key, <<77, 101>> >> >>,
      << <<K_hash_algo, <<99, 114, 99, 51, 50>> >> >> }

\* constructor arguments: client_id 12 or '', client_secret 's' or ''
ArgsPool ==
    { [client_id |-> IntV(12), client_secret |-> StrV(<<115>>), options |-> o] :
            o \in OptionsPool }
    \cup { [client_id |-> StrV(<<>>), client_secret |-> StrV(<<115>>), options |-> <<>>],
           [client_id |-> IntV(12), client_secret |-> StrV(<<>>), options |-> <<>>] }

\* payload objects shared by the concurrent callers
ConcPayloads ==
    { <<>>,
      << <<K_client_id, StrV(<<88>>)>>, <<<<65>>, StrV(<<120>>)>> >>,
      << <<<<97, 49>>, ListV(<< <<88>> >>)>>, <<<<97>>, StrV(<<88>>)>> >> }

Threads == 1..NumThreads

(* ------------------------------ state --------------------------------- *)
VARIABLES
    stage,      \* "new" before Signer(...) has run, "ready" after
    args,       \* the arguments given to Signer(...)
    signer,     \* <<>> or <<the instance>>
    raised,     \* exception raised by the last call, "none" if it returned
    payload,    \* the caller's payload object
    before,     \* the payload as it was when the last call was entered
    rets,       \* the calls made on the payload so far, with their return values
    lastCtx,    \* the context computed inside the last call
    objs,       \* payload objects of the concurrent callers
    targ,       \* targ[t]: the object thread t passes to sign
    pc,         \* pc[t]: the statement of sign thread t executes next
    loc,        \* loc[t]: the local variables of thread t's sign call
    result      \* result[t]: what thread t's sign call returned

vars == <<stage, args, signer, raised, payload, before, rets, lastCtx,
          objs, targ, pc, loc, result>>

seqVars == <<payload, before, rets, lastCtx>>
concVars == <<objs, targ, pc, loc, result>>

NoLocals == [merged_payload |-> <<>>, scope |-> <<>>, context |-> <<>>,
             s2s |-> <<>>, signing_key |-> <<>>]

this == signer[1]

(* ------------------- one caller, sequential calls --------------------- *)
Init ==
    /\ stage = "new"
    /\ args \in ArgsPool
    /\ signer = <<>>
    /\ raised = "none"
    /\ payload = <<>>
    /\ before = <<>>
    /\ rets = <<>>
    /\ lastCtx = <<>>
    /\ objs = <<>>
    /\ targ = [t \in Threads |-> 0]
    /\ pc = [t \in Threads |-> "idle"]
    /\ loc = [t \in Threads |-> NoLocals]
    /\ result = [t \in Threads |-> <<>>]

\* Signer(client_id, client_secret, options): no statement of __init__ raises
Construct ==
    /\ stage = "new"
    /\ signer' = <<Signer__init__(args.client_id, args.client_secret, args.options)>>
    /\ raised' = "none"
    /\ stage' = "ready"
    /\ UNCHANGED <<args, seqVars, concVars>>

\* the caller fills its payload: payload[k] = v
CallerPut(k, v) ==
    /\ stage = "ready"
    /\ rets = <<>>
    /\ DictHas(payload, k) \/ Len(payload) < MaxKeys
    /\ payload' = DictSet(payload, k, v)
    /\ UNCHANGED <<stage, args, signer, raised, before, rets, lastCtx, concVars>>

\* signer.sign(payload)
CallSign ==
    /\ stage = "ready"
    /\ Len(rets) < MaxCalls
    /\ before' = payload
    /\ lastCtx' = __create_context(this, MergedPayload(this, payload))
    /\ rets' = Append(rets, [op |-> "sign", ret |-> sign(this, payload)])
    /\ raised' = "none"
    /\ UNCHANGED <<stage, args, signer, payload, concVars>>

\* signer.generate_query_string_params(payload)
CallGenerate ==
    /\ stage = "ready"
    /\ Len(rets) < MaxCalls
    /\ before' = payload
    /\ lastCtx' = __create_context(this, MergedPayload(this, DictPop(payload, K_client_secret)))
    /\ payload' = PayloadAfterGenerate(this, payload)
    /\ rets' = Append(rets, [op |-> "generate", ret |-> generate_query_string_params(this, payload)])
    /\ raised' = "none"
    /\ UNCHANGED <<stage, args, signer, concVars>>

Next ==
    \/ Construct
    \/ \E item \in ItemPool : CallerPut(item[1], item[2])
    \/ CallSign
    \/ CallGenerate

Spec == Init /\ [][Next]_vars

(* ------------- several threads in sign on one instance ---------------- *)
InitConc ==
    /\ stage = "ready"
    /\ args \in {a \in ArgsPool : a.client_id # StrV(<<>>) /\ a.client_secret # StrV(<<>>)
                                    /\ ~DictHas(a.options, K_hash_algo)}
    /\ signer = <<Signer__init__(args.client_id, args.client_secret, args.options)>>
    /\ raised = "none"
    /\ payload = <<>>
    /\ before = <<>>
    /\ rets = <<>>
    /\ lastCtx = <<>>
    /\ objs \in [1..2 -> ConcPayloads]
    /\ targ \in [Threads -> 1..2]
    /\ pc = [t \in Threads |-> "copy"]
    /\ loc = [t \in Threads |-> NoLocals]
    /\ result = [t \in Threads |-> <<>>]

\* merged_payload = payload.copy()
SignCopy(t) ==
    /\ pc[t] = "copy"
    /\ loc' = [loc EXCEPT ![t].merged_payload = DictCopy(objs[targ[t]])]
    /\ pc' = [pc EXCEPT ![t] = "update"]
    /\ UNCHANGED <<stage, args, signer, raised, seqVars, objs, targ, result>>

\* the update applied to the caller's object (merged_payload = payload, no copy)
SignUpdateInPlace(t) ==
    /\ pc[t] = "update"
    /\ objs' = [objs EXCEPT ![targ[t]] =
                    DictUpdate(@, << <<K_client_id, StrV(this.client_id)>>,
                                     <<K_client_secret, StrV(this.client_secret)>> >>)]
    /\ loc' = [loc EXCEPT ![t].merged_payload = objs'[targ[t]]]
    /\ pc' = [pc EXCEPT ![t] = "scope"]
    /\ UNCHANGED <<stage, args, signer, raised, seqVars, targ, result>>

\* merged_payload.update({'client_id': ..., 'client_secret': ...})
SignUpdate(t) ==
    /\ pc[t] = "update"
    /\ loc' = [loc EXCEPT ![t].merged_payload =
                    DictUpdate(@, << <<K_client_id, StrV(this.client_id)>>,
                                     <<K_client_secret, StrV(this.client_secret)>> >>)]
    /\ pc' = [pc EXCEPT ![t] = "scope"]
    /\ UNCHANGED <<stage, args, signer, raised, seqVars, objs, targ, result>>

\* scope = this.__create_scope()
SignScope(t) ==
    /\ pc[t] = "scope"
    /\ loc' = [loc EXCEPT ![t].scope = __create_scope(this)]
    /\ pc' = [pc EXCEPT ![t] = "context"]
    /\ UNCHANGED <<stage, args, signer, raised, seqVars, objs, targ, result>>

\* context = this.__create_context(merged_payload)
SignContext(t) ==
    /\ pc[t] = "context"
    /\ loc' = [loc EXCEPT ![t].context = __create_context(this, loc[t].merged_payload)]
    /\ pc' = [pc EXCEPT ![t] = "s2s"]
    /\ UNCHANGED <<stage, args, signer, raised, seqVars, objs, targ, result>>

\* s2s = this.__create_string_to_sign(scope, context)
SignStringToSign(t) ==
    /\ pc[t] = "s2s"
    /\ loc' = [loc EXCEPT ![t].s2s = __create_string_to_sign(this, loc[t].scope, loc[t].context)]
    /\ pc' = [pc EXCEPT ![t] = "salt"]
    /\ UNCHANGED <<stage, args, signer, raised, seqVars, objs, targ, result>>

\* signing_key = this.__get_signing_salt()
SignSalt(t) ==
    /\ pc[t] = "salt"
    /\ loc' = [loc EXCEPT ![t].signing_key = __get_signing_salt(this)]
    /\ pc' = [pc EXCEPT ![t] = "hmac"]
    /\ UNCHANGED <<stage, args, signer, raised, seqVars, objs, targ, result>>

\* signature = hmac.new(signing_key, s2s, this.hash_algo).hexdigest(); return signature
SignHmac(t) ==
    /\ pc[t] = "hmac"
    /\ result' = [result EXCEPT ![t] =
                    hmac_hexdigest(loc[t].signing_key, loc[t].s2s, this.hash_algo)]
    /\ pc' = [pc EXCEPT ![t] = "done"]
    /\ UNCHANGED <<stage, args, signer, raised, seqVars, objs, targ, loc>>

NextConc ==
    \E t \in Threads :
        \/ SignCopy(t)
        \/ SignUpdate(t)
        \/ SignScope(t)
        \/ SignContext(t)
        \/ SignStringToSign(t)
        \/ SignSalt(t)
        \/ SignHmac(t)

SpecConc == InitConc /\ [][NextConc]_vars

(* --------------------- vocabulary of the properties ------------------- *)
Last == rets[Len(rets)]

LastOp(op) == rets # <<>> /\ Last.op = op

\* the hash names hashlib knows, as far as the options in OptionsPool go
SupportedHashes == {S_sha512, <<115, 104, 97, 50, 53, 54>>}

ArgsValid(a) ==
    /\ Format(a.client_id) # <<>>
    /\ Format(a.client_secret) # <<>>
    /\ DictHas(a.options, K_hash_algo) => DictGet(a.options, K_hash_algo) \in SupportedHashes

\* the self_key the caller asked for
RequestedSelfKey(options) ==
    IF DictHas(options, K_self_key) THEN DictGet(options, K_self_key) ELSE S_WePay

HasComposite(d) == \E i \in DOMAIN d : d[i][2].kind = "list"

\* the pieces of s between the occurrences of the character c
RECURSIVE Split(_, _)
Split(s, c) ==
    LET I == {i \in DOMAIN s : s[i] = c}
    IN  IF I = {} THEN <<s>>
        ELSE <<SubSeq(s, 1, Min(I) - 1)>> \o Split(SubSeq(s, Min(I) + 1, Len(s)), c)

\* a query string read back as its <<key, value>> pairs
QsPairs(qs) ==
    LET parts == Split(qs, 38)
    IN  [i \in DOMAIN parts |->
            LET E == {j \in DOMAIN parts[i] : parts[i][j] = 61}
            IN  IF E = {} THEN <<parts[i], <<>> >>
                ELSE <<SubSeq(parts[i], 1, Min(E) - 1),
                       SubSeq(parts[i], Min(E) + 1, Len(parts[i]))>>]

Contains(s, sub) == \E i \in 1..(Len(s) - Len(sub) + 1) : SubSeq(s, i, i + Len(sub) - 1) = sub

\* the strings of s in ascending order, by rank
SortedRef(s) ==
    [i \in DOMAIN s |->
        CHOOSE x \in Range(s) :
            /\ Cardinality({j \in DOMAIN s : StrLess(s[j], x)}) < i
            /\ i <= Cardinality({j \in DOMAIN s : ~StrLess(x, s[j])})]

\* the payload whose context the last call computed
LastMerged ==
    IF Last.op = "sign" THEN MergedPayload(this, before)
    ELSE MergedPayload(this, DictPop(before, K_client_secret))

\* d with the items at i and j exchanged
Swap(d, i, j) == [n \in DOMAIN d |-> IF n = i THEN d[j] ELSE IF n = j THEN d[i] ELSE d[n]]

\* other insertion orders of d: every exchange of two items, and the reverse
Reorderings(d) ==
    {Swap(d, p[1], p[2]) : p \in {q \in (DOMAIN d) \X (DOMAIN d) : q[1] < q[2]}}
        \cup {[n \in DOMAIN d |-> d[Len(d) + 1 - n]]}

SwapCase(s) ==
    [i \in DOMAIN s |->
        IF s[i] >= 65 /\ s[i] <= 90 THEN s[i] + 32
        ELSE IF s[i] >= 97 /\ s[i] <= 122 THEN s[i] - 32 ELSE s[i]]

SwapCaseValue(v) ==
    [kind |-> v.kind, s |-> SwapCase(v.s), n |-> v.n,
     items |-> [i \in DOMAIN v.items |-> SwapCase(v.items[i])]]

\* the payloads that differ from d only in the letter case of values
ValueCaseVariants(d) ==
    { [i \in DOMAIN d |-> IF i \in S THEN <<d[i][1], SwapCaseValue(d[i][2])>> ELSE d[i]] :
        S \in SUBSET DOMAIN d }

\* the payloads that differ from d in the letter case of one key
KeyCaseVariants(d) ==
    { q \in { [i \in DOMAIN d |-> IF i = n THEN <<SwapCase(d[i][1]), d[i][2]>> ELSE d[i]] :
                n \in DOMAIN d } :
        /\ Cardinality(Range(DictKeys(q))) = Len(q)
        /\ q # d }

(* ---------------------------- properties ------------------------------ *)
\* C1: generate_query_string_params leaves the caller's payload map with
\* exactly the keys and values it had when the call was entered.
C1_PayloadNotMutated == LastOp("generate") => Range(payload) = Range(before)

\* C2: constructing a Signer raises ConfigurationError and yields no instance
\* when client_id or client_secret is empty or hash_algo is not a supported
\* hash, and succeeds only when all three are valid.
C2_ConstructionValidates ==
    stage = "ready" =>
        IF ArgsValid(args)
        THEN signer # <<>> /\ raised = "none"
        ELSE signer = <<>> /\ raised = "ConfigurationError"

\* C3: the instance uses the self_key the caller supplied ("WePay" only when
\* none was supplied), and a Signer built with another self_key and the same
\* client_id and client_secret signs the same payload differently.
C3_SelfKeyTakesEffect ==
    LastOp("sign") =>
        /\ this.self_key = RequestedSelfKey(args.options)
        /\ \A o \in OptionsPool :
              RequestedSelfKey(o) # RequestedSelfKey(args.options) =>
                  sign(Signer__init__(args.client_id, args.client_secret, o), before) # Last.ret

\* C4: the string generate_query_string_params returns has no client_secret
\* pair, whether or not the payload had a 'client_secret' key.
C4_SecretExcluded ==
    LastOp("generate") =>
        /\ \A i \in DOMAIN QsPairs(Last.ret) : QsPairs(Last.ret)[i][1] # K_client_secret
        /\ ~Contains(Last.ret, K_client_secret \o <<61>>)

C4_Witness == LastOp("generate") /\ DictHas(before, K_client_secret)

\* C5: the query string is the key=value pairs joined by '&', keys strictly
\* ascending, one pair per payload key other than client_secret plus client_id
\* and stoken; client_id carries the instance's client_id and stoken the value
\* sign returns for the caller's payload.
C5_QueryStringShape ==
    LastOp("generate") =>
        LET pairs == QsPairs(Last.ret)
        IN  /\ Last.ret = Join(<<38>>, [i \in DOMAIN pairs |-> pairs[i][1] \o <<61>> \o pairs[i][2]])
            /\ \A i \in 1..(Len(pairs) - 1) : StrLess(pairs[i][1], pairs[i + 1][1])
            /\ {pairs[i][1] : i \in DOMAIN pairs}
                  = (Range(DictKeys(before)) \ {K_client_secret}) \cup {K_client_id, K_stoken}
            /\ \A i \in DOMAIN pairs :
                  pairs[i][2] =
                      IF pairs[i][1] = K_client_id THEN this.client_id
                      ELSE IF pairs[i][1] = K_stoken THEN sign(this, before)
                      ELSE Format(DictGet(before, pairs[i][1]))

C5_Witness ==
    /\ LastOp("generate")
    /\ DictHas(before, K_stoken)
    /\ DictHas(before, K_client_id)
    /\ Format(DictGet(before, K_client_id)) # this.client_id

\* C6: when the payload holds a composite value, sign and
\* generate_query_string_params raise PayloadError and return nothing.
C6_CompositeRaises ==
    (rets # <<>> /\ HasComposite(before)) => (raised = "PayloadError" /\ Last.ret = <<>>)

\* C7: in every interleaving of sign calls on one instance no step changes the
\* instance fields or a payload, and each call returns the signature it
\* returns when run alone on its payload.
C7_ConcurrentSignSafe ==
    /\ [][signer' = signer /\ objs' = objs]_vars
    /\ [](\A t \in Threads : pc[t] = "done" => result[t] = sign(this, objs[targ[t]]))

C7_Witness ==
    \E t, u \in Threads :
        /\ t # u
        /\ targ[t] = targ[u]
        /\ objs[targ[t]] # <<>>
        /\ pc[t] = "done"
        /\ pc[u] \notin {"copy", "done"}

\* C8: the context is the rendered lines lowercase(key)=lowercase(str(value))\n
\* in ascending order of the whole lines, then one more \n and the
\* original-case keys in ascending order joined by ';', and it is the same for
\* every insertion order of the payload's keys.
C8_ContextCanonical ==
    rets # <<>> =>
        LET mp == LastMerged
            lines == [i \in DOMAIN mp |->
                        Lower(mp[i][1]) \o <<61>> \o Lower(Format(mp[i][2])) \o <<10>>]
        IN  /\ lastCtx = Join(<<>>, SortedRef(lines)) \o <<10>>
                            \o Join(<<59>>, SortedRef(DictKeys(mp)))
            /\ \A q \in Reorderings(mp) : __create_context(this, q) = lastCtx

C8_Witness ==
    /\ LastOp("sign")
    /\ DictKeys(before) = << <<97>>, <<97, 49>> >>
    /\ before[1][2] = StrV(<<88>>)

\* C9: two generate_query_string_params calls in sequence with the same
\* payload object return the same query string.
C9_GenerateIdempotent ==
    \A i \in 1..(Len(rets) - 1) :
        (rets[i].op = "generate" /\ rets[i + 1].op = "generate") => rets[i + 1].ret = rets[i].ret

\* C10: payloads with the same keys whose values differ only in letter case
\* get the same signature, and changing the letter case of a key changes the
\* context.
C10_ValueCaseInsensitive ==
    LastOp("sign") =>
        /\ \A q \in ValueCaseVariants(before) : sign(this, q) = Last.ret
        /\ \A q \in KeyCaseVariants(before) :
              __create_context(this, MergedPayload(this, q)) # lastCtx

C10_Witness ==
    /\ LastOp("sign")
    /\ DictHas(before, <<97>>)
    /\ DictGet(before, <<97>>) = StrV(<<88>>)
    /\ DictHas(before, <<65>>)

====
